---- MODULE Spec2Model ----
(***************************************************************************)
(* State-machine model of the coffee-roast predictor pages.                *)
(*                                                                         *)
(* The repository holds five variants of one React page:                   *)
(*   Upload   : src/src/app/page.tsx       (file upload)                   *)
(*   StreamA  : src/unnamed/part_000       (getUserMedia, isLoading)       *)
(*   StreamB  : src/unnamed/part_001       (getUserMedia, stopCamera)      *)
(*   Snapshot : src/unnamed/part_002       (react-camera-pro)              *)
(*   Test     : src/src/app/test/page.tsx  (getUserMedia, capture+predict) *)
(*                                                                         *)
(* One behaviour is the life of one mounted page: the variant is fixed in  *)
(* Init.  A user gesture is one action; it runs the handler only when the  *)
(* control that carries the handler is rendered and not disabled (the JSX  *)
(* conditions).  Every await / callback of the code is a separate action,  *)
(* so that other events interleave with it as they do in the browser.      *)
(* After teardown React drops state updates; refs and media streams are    *)
(* still touched by late continuations.                                    *)
(***************************************************************************)
EXTENDS Integers, Sequences, FiniteSets

VARIABLES
    variant,         \* which page is mounted
    mounted,         \* the component is mounted (FALSE after teardown)
    loadStatus,      \* tf.loadLayersModel promise: "pending" | "ready" | "failed"
    model,           \* useState model: "null" | "loaded"
    isLoading,       \* useState isLoading (Upload, StreamA)
    isModelLoading,  \* useState isModelLoading (StreamB, Snapshot, Test)
    isPredicting,    \* useState isPredicting (StreamB, Snapshot, Test)
    image,           \* useState imageURL / capturedImage / image: 0 is null
    prediction,      \* useState prediction: "null" or a label name
    error,           \* useState error: "null" or the kind of message
    cameraActive,    \* useState cameraActive
    streamRef,       \* streamRef.current: 0 is null, else a stream id
    videoSrc,        \* videoRef.current.srcObject: 0 is null, else a stream id
    liveStreams,     \* streams acquired from getUserMedia whose tracks are not stopped
    acquired,        \* number of streams getUserMedia has handed out
    gumPending,      \* getUserMedia requests awaiting the user's answer
    jobs,            \* predict calls in flight: <<[img, stage]>>
    nextImg,         \* next fresh image id (object URL / data URL)
    predFrom,        \* history: the image the held prediction was computed from
    lastOp,          \* history: the last handler or completion that ran
    liveTensors,     \* tf tensors allocated by predict calls and not disposed
    lastData,        \* history: the vector the last output.data() resolved to
    prep             \* a run of the preprocessing pipeline on one bitmap

vars == <<variant, mounted, loadStatus, model, isLoading, isModelLoading,
          isPredicting, image, prediction, error, cameraActive, streamRef,
          videoSrc, liveStreams, acquired, gumPending, jobs, nextImg,
          predFrom, lastOp, liveTensors, lastData, prep>>

\* the fields of the spec's SessionState, as the page holds them
sessionVars == <<model, isLoading, isModelLoading, isPredicting, image,
                 prediction, error, cameraActive>>

\* the camera resources
cameraVars == <<streamRef, videoSrc, liveStreams, acquired, gumPending>>

\* the tensors and the last output vector
tensorVars == <<liveTensors, lastData>>

(***************************************************************************)
(* Bounds                                                                  *)
(***************************************************************************)
MaxImages == 2     \* images uploaded or captured in one behaviour
MaxStreams == 2    \* streams getUserMedia hands out in one behaviour
MaxPending == 2    \* getUserMedia requests pending at once
MaxJobs == 2       \* predict calls in flight at once
MaxConf == 1       \* a confidence is one of 0..MaxConf
MaxTensors == 4    \* tensors left allocated in one behaviour
MaxDim == 2        \* a bitmap is 0..MaxDim wide and 0..MaxDim high

(***************************************************************************)
(* Constants of the program                                                *)
(***************************************************************************)
Variants == {"Upload", "StreamA", "StreamB", "Snapshot", "Test"}

\* classLabels[i].name, indexed as in the source
classLabels == [i \in 0..3 |->
                  CASE i = 0 -> "Dark" [] i = 1 -> "Green"
                    [] i = 2 -> "Light" [] OTHER -> "Medium"]

\* the values output.data() can resolve to
Vectors == [0..3 -> 0..MaxConf]

\* the largest of data[0..k], scanning left to right as Math.max does
RECURSIVE MaxUpTo(_, _)
MaxUpTo(data, k) ==
    IF k = 0 THEN data[0]
    ELSE LET m == MaxUpTo(data, k - 1)
         IN IF data[k] > m THEN data[k] ELSE m

\* Math.max(...data)
MaxOf(data) == MaxUpTo(data, 3)

\* arr.indexOf(x) scanning from position k: the first match, or -1
RECURSIVE indexOfFrom(_, _, _)
indexOfFrom(arr, x, k) ==
    IF k > 3 THEN -1
    ELSE IF arr[k] = x THEN k ELSE indexOfFrom(arr, x, k + 1)

\* arr.lastIndexOf(x) scanning down from position k: the last match, or -1
RECURSIVE lastIndexOfFrom(_, _, _)
lastIndexOfFrom(arr, x, k) ==
    IF k < 0 THEN -1
    ELSE IF arr[k] = x THEN k ELSE lastIndexOfFrom(arr, x, k - 1)

\* Array.from(data).indexOf(Math.max(...Array.from(data)))
predictedIndex_Last(data) == lastIndexOfFrom(data, MaxOf(data), 3)

predictedIndex(data) == indexOfFrom(data, MaxOf(data), 0)

\* the sequence s without its i-th element
Remove(s, i) == [k \in 1..(Len(s) - 1) |-> IF k < i THEN s[k] ELSE s[k + 1]]

(***************************************************************************)
(* What is rendered                                                        *)
(***************************************************************************)
\* variants whose predict flag is isLoading (the others use isPredicting)
UsesIsLoading == variant \in {"Upload", "StreamA"}

\* the flag the spec calls busy
Busy == isLoading \/ isModelLoading \/ isPredicting

\* <video ref={videoRef}> is rendered only when cameraActive, so this is
\* videoRef.current # null
VideoMounted == mounted /\ cameraActive

\* <Camera ref={cameraRef}> is rendered only when cameraActive
CameraRefMounted == mounted /\ cameraActive

\* the control that calls startCamera is on the page
StartCameraRendered ==
    /\ mounted
    /\ CASE variant = "StreamA" -> ~cameraActive /\ image = 0
         [] variant = "StreamB" -> ~cameraActive
         [] variant = "Test" -> ~cameraActive
         [] OTHER -> FALSE

\* disabled={isLoading} on the Start Camera button of StreamA
StartCameraDisabled == variant = "StreamA" /\ isLoading

\* the file input that calls handleUpload is on the page
UploadRendered == mounted /\ variant = "Upload"

\* the control that calls handlePredict is on the page
PredictRendered ==
    mounted /\ variant \in {"Upload", "StreamA", "StreamB"} /\ image # 0

\* disabled={isLoading} / disabled={isPredicting} on a button that predicts
PredictDisabled_NoGate == FALSE

PredictDisabled == IF UsesIsLoading THEN isLoading ELSE isPredicting

\* if (!model || !imageURL) return;
HandlePredictGuard_NoModelCheck == image # 0

HandlePredictGuard == model # "null" /\ image # 0

\* if (!cameraRef.current || !model) return;
TakeAndPredictGuard_NoModelCheck == CameraRefMounted

TakeAndPredictGuard == CameraRefMounted /\ model # "null"

\* if (!model || !videoRef.current || !canvasRef.current) return;
CaptureAndPredictGuard == model # "null" /\ VideoMounted

(***************************************************************************)
(* Preprocessing: the tf.tidy block of a predict call, one tf operation    *)
(* at a time.  A bitmap is described by its width, its height and the      *)
(* least and greatest of its samples; a tensor by its shape, its dtype and *)
(* an enclosure lo/den .. hi/den of its values.                            *)
(***************************************************************************)
\* the side of the model's input: resizeBilinear([256, 256]), canvas.width = 256
TargetSize == 256

\* the divisor of div(255.0), which is also the greatest 8-bit sample
MaxSample == 255

\* the samples a bitmap is drawn from
Samples == {0, 128, MaxSample}

\* the chain of calls each page makes on the bitmap, ending in model.predict
Pipeline ==
    IF variant = "Test"
      THEN <<"drawImage", "fromPixels", "toFloat", "div", "expandDims", "predict">>
    ELSE IF variant = "StreamA"
      THEN <<"fromPixels", "resizeNearestNeighbor", "toFloat", "div",
             "expandDims", "predict">>
      ELSE <<"fromPixels", "resizeBilinear", "toFloat", "div", "expandDims",
             "predict">>

\* no preprocessing is running
PrepIdle == [w |-> 0, h |-> 0, todo |-> <<>>, done |-> <<>>, shape |-> <<>>,
             dtype |-> "none", lo |-> 0, hi |-> 0, den |-> 1, err |-> "null"]

\* a predict call is about to preprocess a w x h bitmap with samples lo..hi
PrepInput(w, h, lo, hi) ==
    [w |-> w, h |-> h, todo |-> Pipeline, done |-> <<>>, shape |-> <<h, w, 4>>,
     dtype |-> "bitmap", lo |-> lo, hi |-> hi, den |-> 1, err |-> "null"]

\* the next call of the chain is op
PrepAt(op) == prep.todo # <<>> /\ Head(prep.todo) = op

\* op returned t: the chain moves on
PrepStep(t) == [t EXCEPT !.todo = Tail(prep.todo),
                         !.done = Append(prep.done, Head(prep.todo))]

\* op threw: the catch block of the predict call reports 'Prediction failed'
PrepThrow == [prep EXCEPT !.todo = <<>>, !.shape = <<>>, !.dtype = "none",
                          !.err = "Predict"]

(***************************************************************************)
(* Init: the page right after mount, the effect has started loadModel      *)
(***************************************************************************)
Init ==
    /\ variant \in Variants
    /\ mounted = TRUE
    /\ loadStatus = "pending"
    /\ model = "null"
    /\ isLoading = (variant \in {"Upload", "StreamA"})
    /\ isModelLoading = (variant \in {"StreamB", "Snapshot", "Test"})
    /\ isPredicting = FALSE
    /\ image = 0
    /\ prediction = "null"
    /\ error = "null"
    /\ cameraActive = FALSE
    /\ streamRef = 0
    /\ videoSrc = 0
    /\ liveStreams = {}
    /\ acquired = 0
    /\ gumPending = 0
    /\ jobs = <<>>
    /\ nextImg = 1
    /\ predFrom = 0
    /\ lastOp = "mount"
    /\ liveTensors = 0
    /\ lastData = [i \in 0..3 |-> 0]
    /\ prep = PrepIdle

(***************************************************************************)
(* State setters shared by the handlers                                    *)
(***************************************************************************)
\* finally { setIsLoading(false) } / finally { setIsModelLoading(false) } of loadModel
ClearLoadFlag ==
    IF UsesIsLoading
      THEN isLoading' = FALSE /\ UNCHANGED <<isModelLoading, isPredicting>>
      ELSE isModelLoading' = FALSE /\ UNCHANGED <<isLoading, isPredicting>>

\* setIsLoading(b) / setIsPredicting(b) of a predict call
SetPredictFlag(b) ==
    IF UsesIsLoading
      THEN isLoading' = b /\ UNCHANGED <<isModelLoading, isPredicting>>
      ELSE isPredicting' = b /\ UNCHANGED <<isLoading, isModelLoading>>

\* handlePredict calls setError(null) in Upload and StreamB, not in StreamA
PredictClearsError == variant \in {"Upload", "StreamB"}

\* img.onerror is assigned in handlePredict, not in takeAndPredict
HasOnerror == variant \in {"Upload", "StreamA", "StreamB"}

(***************************************************************************)
(* Model Loader: the effect's loadModel                                    *)
(***************************************************************************)
\* await tf.loadLayersModel(...) resolves: setModel; finally clears the flag
LoadModelResolve_NoSetModel ==
    /\ loadStatus = "pending"
    /\ loadStatus' = "ready"
    /\ IF mounted
         THEN ClearLoadFlag
         ELSE UNCHANGED <<isLoading, isModelLoading, isPredicting>>
    /\ lastOp' = "loadResolve"
    /\ UNCHANGED <<variant, mounted, model, image, prediction, error,
                   cameraActive, jobs, nextImg, predFrom>>
    /\ UNCHANGED cameraVars
    /\ UNCHANGED <<liveTensors, lastData, prep>>

LoadModelResolve ==
    /\ loadStatus = "pending"
    /\ loadStatus' = "ready"
    /\ IF mounted
         THEN /\ model' = "loaded"
              /\ ClearLoadFlag
         ELSE UNCHANGED <<model, isLoading, isModelLoading, isPredicting>>
    /\ lastOp' = "loadResolve"
    /\ UNCHANGED <<variant, mounted, image, prediction, error, cameraActive,
                   jobs, nextImg, predFrom>>
    /\ UNCHANGED cameraVars
    /\ UNCHANGED <<liveTensors, lastData, prep>>

\* await tf.loadLayersModel(...) rejects: catch sets error; finally clears the flag
LoadModelReject ==
    /\ loadStatus = "pending"
    /\ loadStatus' = "failed"
    /\ IF mounted
         THEN /\ error' = "ModelLoad"
              /\ ClearLoadFlag
         ELSE UNCHANGED <<error, isLoading, isModelLoading, isPredicting>>
    /\ lastOp' = "loadReject"
    /\ UNCHANGED <<variant, mounted, model, image, prediction, cameraActive,
                   jobs, nextImg, predFrom>>
    /\ UNCHANGED cameraVars
    /\ UNCHANGED <<liveTensors, lastData, prep>>

(***************************************************************************)
(* Upload page: handleUpload                                               *)
(***************************************************************************)
\* onChange of the file input; hasFile is files && files.length > 0
HandleUpload_KeepPrediction(hasFile) ==
    /\ UploadRendered
    /\ IF hasFile
         THEN /\ nextImg <= MaxImages
              /\ image' = nextImg
              /\ nextImg' = nextImg + 1
              /\ error' = "null"
              /\ lastOp' = "upload"
              /\ UNCHANGED prediction
         ELSE /\ lastOp' = "uploadEmpty"
              /\ UNCHANGED <<image, nextImg, prediction, error>>
    /\ UNCHANGED <<variant, mounted, loadStatus, model, isLoading,
                   isModelLoading, isPredicting, cameraActive, jobs, predFrom>>
    /\ UNCHANGED cameraVars
    /\ UNCHANGED <<liveTensors, lastData, prep>>

HandleUpload(hasFile) ==
    /\ UploadRendered
    /\ IF hasFile
         THEN /\ nextImg <= MaxImages
              /\ image' = nextImg
              /\ nextImg' = nextImg + 1
              /\ prediction' = "null"
              /\ error' = "null"
              /\ lastOp' = "upload"
         ELSE /\ lastOp' = "uploadEmpty"
              /\ UNCHANGED <<image, nextImg, prediction, error>>
    /\ UNCHANGED <<variant, mounted, loadStatus, model, isLoading,
                   isModelLoading, isPredicting, cameraActive, jobs, predFrom>>
    /\ UNCHANGED cameraVars
    /\ UNCHANGED <<liveTensors, lastData, prep>>

(***************************************************************************)
(* handlePredict (Upload, StreamA, StreamB) and its callbacks              *)
(***************************************************************************)
\* a click on Predict Roast
HandlePredict ==
    /\ PredictRendered
    /\ IF PredictDisabled
         THEN /\ lastOp' = "predictRejected"
              /\ UNCHANGED <<isLoading, isModelLoading, isPredicting, error, jobs>>
         ELSE IF ~HandlePredictGuard
           THEN /\ lastOp' = "predictNoop"
                /\ UNCHANGED <<isLoading, isModelLoading, isPredicting, error, jobs>>
           ELSE /\ Len(jobs) < MaxJobs
                /\ SetPredictFlag(TRUE)
                /\ error' = IF PredictClearsError THEN "null" ELSE error
                /\ jobs' = Append(jobs, [img |-> image, stage |-> "decode"])
                /\ lastOp' = "predict"
    /\ UNCHANGED <<variant, mounted, loadStatus, model, image, prediction,
                   cameraActive, nextImg, predFrom>>
    /\ UNCHANGED cameraVars
    /\ UNCHANGED <<liveTensors, lastData, prep>>

\* img.onload up to the await.  tf.tidy(...) returns the input tensor and
\* model.predict(tensor) the output, and the handler suspends at
\* await output.data(); or tf.tidy throws, which frees what it allocated; or
\* model.predict throws with the input tensor allocated, and catch + finally
\* run without a dispose
ImgOnload(i) ==
    /\ i \in DOMAIN jobs
    /\ jobs[i].stage = "decode"
    /\ \/ /\ liveTensors + 2 <= MaxTensors
          /\ liveTensors' = liveTensors + 2
          /\ jobs' = [jobs EXCEPT ![i].stage = "data"]
          /\ lastOp' = "imgOnload"
          /\ UNCHANGED <<isLoading, isModelLoading, isPredicting, error>>
       \/ /\ jobs' = Remove(jobs, i)
          /\ lastOp' = "predictThrow"
          /\ IF mounted
               THEN error' = "Predict" /\ SetPredictFlag(FALSE)
               ELSE UNCHANGED <<isLoading, isModelLoading, isPredicting, error>>
          /\ UNCHANGED liveTensors
       \/ /\ liveTensors + 1 <= MaxTensors
          /\ liveTensors' = liveTensors + 1
          /\ jobs' = Remove(jobs, i)
          /\ lastOp' = "predictThrow"
          /\ IF mounted
               THEN error' = "Predict" /\ SetPredictFlag(FALSE)
               ELSE UNCHANGED <<isLoading, isModelLoading, isPredicting, error>>
    /\ UNCHANGED <<variant, mounted, loadStatus, model, image, prediction,
                   cameraActive, nextImg, predFrom>>
    /\ UNCHANGED cameraVars
    /\ UNCHANGED <<lastData, prep>>

\* await output.data() resolves with data: tensor.dispose(), output.dispose(),
\* argmax, setPrediction; finally
DataResolve(i) ==
    /\ i \in DOMAIN jobs
    /\ jobs[i].stage = "data"
    /\ jobs' = Remove(jobs, i)
    /\ lastOp' = "dataResolve"
    /\ liveTensors' = liveTensors - 2
    /\ \E data \in Vectors :
          /\ lastData' = data
          /\ IF mounted
               THEN /\ prediction' = classLabels[predictedIndex(data)]
                    /\ predFrom' = jobs[i].img
                    /\ SetPredictFlag(FALSE)
               ELSE UNCHANGED <<prediction, predFrom, isLoading,
                                isModelLoading, isPredicting>>
    /\ UNCHANGED <<variant, mounted, loadStatus, model, image, error,
                   cameraActive, nextImg>>
    /\ UNCHANGED cameraVars
    /\ UNCHANGED prep

\* await output.data() rejects: catch sets error; finally.  The two dispose
\* calls after the await are skipped
DataReject(i) ==
    /\ i \in DOMAIN jobs
    /\ jobs[i].stage = "data"
    /\ jobs' = Remove(jobs, i)
    /\ lastOp' = "dataReject"
    /\ IF mounted
         THEN error' = "Predict" /\ SetPredictFlag(FALSE)
         ELSE UNCHANGED <<error, isLoading, isModelLoading, isPredicting>>
    /\ UNCHANGED <<variant, mounted, loadStatus, model, image, prediction,
                   cameraActive, nextImg, predFrom>>
    /\ UNCHANGED cameraVars
    /\ UNCHANGED <<liveTensors, lastData, prep>>

\* the image fails to decode: img.onerror where the handler assigned one
ImgOnerror(i) ==
    /\ i \in DOMAIN jobs
    /\ jobs[i].stage = "decode"
    /\ jobs' = Remove(jobs, i)
    /\ lastOp' = "imgOnerror"
    /\ IF mounted /\ HasOnerror
         THEN error' = "Decode" /\ SetPredictFlag(FALSE)
         ELSE UNCHANGED <<error, isLoading, isModelLoading, isPredicting>>
    /\ UNCHANGED <<variant, mounted, loadStatus, model, image, prediction,
                   cameraActive, nextImg, predFrom>>
    /\ UNCHANGED cameraVars
    /\ UNCHANGED <<liveTensors, lastData, prep>>

(***************************************************************************)
(* Live-stream pages: startCamera, captureImage, stopCamera, resetCamera   *)
(*                                                                         *)
(* A gesture on a control that is not rendered changes nothing.  In the    *)
(* three live-stream pages <video> is rendered only when cameraActive and  *)
(* setCameraActive(true) runs only under if (videoRef.current), so TLC     *)
(* shows the handlers behind the camera view to be unreachable there.      *)
(***************************************************************************)
\* the body of startCamera up to the await: clear state, ask for the device
StartCameraBody ==
    /\ gumPending < MaxPending
    /\ gumPending' = gumPending + 1
    /\ prediction' = "null"
    /\ error' = "null"
    /\ image' = IF variant = "Test" THEN image ELSE 0
    /\ UNCHANGED <<variant, mounted, loadStatus, model, isLoading,
                   isModelLoading, isPredicting, cameraActive, streamRef,
                   videoSrc, liveStreams, acquired, jobs, nextImg, predFrom>>
    /\ UNCHANGED <<liveTensors, lastData, prep>>

\* a click on Start Camera / Open Camera
StartCamera ==
    IF ~StartCameraRendered
      THEN UNCHANGED vars
      ELSE IF StartCameraDisabled
        THEN lastOp' = "startRejected" /\ UNCHANGED <<variant, mounted,
                 loadStatus, jobs, nextImg, predFrom>>
             /\ UNCHANGED sessionVars /\ UNCHANGED cameraVars
             /\ UNCHANGED <<liveTensors, lastData, prep>>
        ELSE StartCameraBody /\ lastOp' = "startCamera"

\* the Retake button of StreamA is rendered with the captured image
ResetCameraRendered == mounted /\ variant = "StreamA" /\ image # 0

\* resetCamera: clear image, prediction, error, then startCamera()
ResetCamera ==
    IF ~ResetCameraRendered
      THEN UNCHANGED vars
      ELSE StartCameraBody /\ lastOp' = "resetCamera"

\* getUserMedia resolves with a new stream
GetUserMediaResolve ==
    /\ gumPending > 0
    /\ acquired < MaxStreams
    /\ gumPending' = gumPending - 1
    /\ acquired' = acquired + 1
    /\ liveStreams' = liveStreams \cup {acquired + 1}
    /\ streamRef' = IF variant \in {"StreamA", "StreamB"}
                      THEN acquired + 1 ELSE streamRef
    /\ IF VideoMounted
         THEN videoSrc' = acquired + 1 /\ cameraActive' = TRUE
         ELSE UNCHANGED <<videoSrc, cameraActive>>
    /\ lastOp' = "gumResolve"
    /\ UNCHANGED <<variant, mounted, loadStatus, model, isLoading,
                   isModelLoading, isPredicting, image, prediction, error,
                   jobs, nextImg, predFrom>>
    /\ UNCHANGED <<liveTensors, lastData, prep>>

\* getUserMedia rejects (permission denied, no device): catch sets error
GetUserMediaReject_Silent ==
    /\ gumPending > 0
    /\ gumPending' = gumPending - 1
    /\ lastOp' = "gumReject"
    /\ UNCHANGED <<variant, mounted, loadStatus, model, isLoading,
                   isModelLoading, isPredicting, image, prediction, error,
                   cameraActive, streamRef, videoSrc, liveStreams, acquired,
                   jobs, nextImg, predFrom>>
    /\ UNCHANGED <<liveTensors, lastData, prep>>

GetUserMediaReject ==
    /\ gumPending > 0
    /\ gumPending' = gumPending - 1
    /\ error' = IF mounted THEN "Camera" ELSE error
    /\ lastOp' = "gumReject"
    /\ UNCHANGED <<variant, mounted, loadStatus, model, isLoading,
                   isModelLoading, isPredicting, image, prediction,
                   cameraActive, streamRef, videoSrc, liveStreams, acquired,
                   jobs, nextImg, predFrom>>
    /\ UNCHANGED <<liveTensors, lastData, prep>>

\* the capture button is rendered inside the camera view
CaptureImageRendered ==
    mounted /\ variant \in {"StreamA", "StreamB"} /\ cameraActive

\* captureImage; ctxOK is canvas.getContext('2d') # null
CaptureImage(ctxOK) ==
    IF ~CaptureImageRendered
      THEN UNCHANGED vars
      ELSE IF ~VideoMounted \/ (variant = "StreamA" /\ ~ctxOK)
        THEN lastOp' = "captureNoop" /\ UNCHANGED <<variant, mounted,
                 loadStatus, jobs, nextImg, predFrom>>
             /\ UNCHANGED sessionVars /\ UNCHANGED cameraVars
             /\ UNCHANGED <<liveTensors, lastData, prep>>
        ELSE /\ nextImg <= MaxImages
             /\ image' = nextImg
             /\ nextImg' = nextImg + 1
             /\ cameraActive' = FALSE
             /\ videoSrc' = 0
             /\ liveStreams' = liveStreams \ {streamRef}
             /\ streamRef' = 0
             /\ lastOp' = "captureImage"
             /\ UNCHANGED <<variant, mounted, loadStatus, model, isLoading,
                            isModelLoading, isPredicting, prediction, error,
                            acquired, gumPending, jobs, predFrom>>
             /\ UNCHANGED <<liveTensors, lastData, prep>>

\* the Close Camera control is rendered inside the camera view
StopCameraRendered ==
    mounted /\ variant \in {"StreamB", "Test"} /\ cameraActive

\* stopCamera: StreamB stops streamRef.current, Test stops video.srcObject
StopCamera ==
    IF ~StopCameraRendered
      THEN UNCHANGED vars
      ELSE /\ IF variant = "StreamB"
                THEN /\ liveStreams' = liveStreams \ {streamRef}
                     /\ streamRef' = 0
                     /\ cameraActive' = FALSE
                     /\ videoSrc' = 0
                ELSE IF videoSrc # 0
                  THEN /\ liveStreams' = liveStreams \ {videoSrc}
                       /\ videoSrc' = 0
                       /\ cameraActive' = FALSE
                       /\ UNCHANGED streamRef
                  ELSE UNCHANGED <<liveStreams, videoSrc, cameraActive, streamRef>>
           /\ lastOp' = "stopCamera"
           /\ UNCHANGED <<variant, mounted, loadStatus, model, isLoading,
                          isModelLoading, isPredicting, image, prediction,
                          error, acquired, gumPending, jobs, nextImg, predFrom>>
           /\ UNCHANGED <<liveTensors, lastData, prep>>

(***************************************************************************)
(* Snapshot page: activateCamera, takeAndPredict                           *)
(***************************************************************************)
\* Open Camera (!cameraActive && !image) or Retake Picture (image && !cameraActive)
ActivateCameraRendered == mounted /\ variant = "Snapshot" /\ ~cameraActive

\* activateCamera
ActivateCamera_KeepImage ==
    /\ ActivateCameraRendered
    /\ cameraActive' = TRUE
    /\ prediction' = "null"
    /\ error' = "null"
    /\ lastOp' = "activateCamera"
    /\ UNCHANGED <<variant, mounted, loadStatus, model, isLoading,
                   isModelLoading, isPredicting, image, jobs, nextImg, predFrom>>
    /\ UNCHANGED cameraVars
    /\ UNCHANGED <<liveTensors, lastData, prep>>

ActivateCamera ==
    /\ ActivateCameraRendered
    /\ cameraActive' = TRUE
    /\ image' = 0
    /\ prediction' = "null"
    /\ error' = "null"
    /\ lastOp' = "activateCamera"
    /\ UNCHANGED <<variant, mounted, loadStatus, model, isLoading,
                   isModelLoading, isPredicting, jobs, nextImg, predFrom>>
    /\ UNCHANGED cameraVars
    /\ UNCHANGED <<liveTensors, lastData, prep>>

\* the device refuses the <Camera> element of the snapshot page (permission
\* denied, no camera).  The page passes the element no callback and
\* errorMessages of undefined, so no state of the page changes
CameraDenied ==
    /\ mounted /\ variant = "Snapshot" /\ cameraActive
    /\ lastOp' = "cameraDenied"
    /\ UNCHANGED <<variant, mounted, loadStatus, jobs, nextImg, predFrom>>
    /\ UNCHANGED sessionVars
    /\ UNCHANGED cameraVars
    /\ UNCHANGED <<liveTensors, lastData, prep>>

\* the Take Picture button is rendered with the camera view
TakeAndPredictRendered == mounted /\ variant = "Snapshot" /\ cameraActive

\* takeAndPredict; photoOK is cameraRef.current.takePhoto() returning a photo
\* (it throws otherwise)
TakeAndPredict(photoOK) ==
    /\ TakeAndPredictRendered
    /\ IF PredictDisabled
         THEN /\ lastOp' = "predictRejected"
              /\ UNCHANGED <<isPredicting, prediction, error, image,
                             cameraActive, jobs, nextImg>>
         ELSE IF ~TakeAndPredictGuard
           THEN /\ lastOp' = "predictNoop"
                /\ UNCHANGED <<isPredicting, prediction, error, image,
                               cameraActive, jobs, nextImg>>
           ELSE IF photoOK
             THEN /\ nextImg <= MaxImages
                  /\ Len(jobs) < MaxJobs
                  /\ isPredicting' = TRUE
                  /\ prediction' = "null"
                  /\ error' = "null"
                  /\ image' = nextImg
                  /\ nextImg' = nextImg + 1
                  /\ cameraActive' = FALSE
                  /\ jobs' = Append(jobs, [img |-> nextImg, stage |-> "decode"])
                  /\ lastOp' = "predict"
             ELSE /\ isPredicting' = FALSE
                  /\ prediction' = "null"
                  /\ error' = "Capture"
                  /\ lastOp' = "takePhotoThrow"
                  /\ UNCHANGED <<image, cameraActive, jobs, nextImg>>
    /\ UNCHANGED <<variant, mounted, loadStatus, model, isLoading,
                   isModelLoading, predFrom>>
    /\ UNCHANGED cameraVars
    /\ UNCHANGED <<liveTensors, lastData, prep>>

(***************************************************************************)
(* Test page: captureAndPredict                                            *)
(***************************************************************************)
\* the Capture & Predict button is rendered with the camera view
CaptureAndPredictRendered == mounted /\ variant = "Test" /\ cameraActive

\* captureAndPredict up to the await; outcome is what the synchronous part
\* meets: "ctxNull" (getContext returns null), "tidyThrow" (tf.tidy throws),
\* "throw" (model.predict throws with the input tensor allocated) or "ok"
\* (input and output allocated, suspends at await output.data())
CaptureAndPredict(outcome) ==
    IF ~CaptureAndPredictRendered
      THEN UNCHANGED vars
      ELSE /\ IF PredictDisabled
                THEN /\ lastOp' = "predictRejected"
                     /\ UNCHANGED <<isPredicting, error, jobs>>
                ELSE IF ~CaptureAndPredictGuard
                  THEN /\ lastOp' = "predictNoop"
                       /\ UNCHANGED <<isPredicting, error, jobs>>
                  ELSE IF outcome = "ctxNull"
                    THEN /\ isPredicting' = TRUE
                         /\ error' = "null"
                         /\ lastOp' = "ctxNull"
                         /\ UNCHANGED jobs
                    ELSE IF outcome \in {"tidyThrow", "throw"}
                      THEN /\ isPredicting' = FALSE
                           /\ error' = "Predict"
                           /\ lastOp' = "predictThrow"
                           /\ UNCHANGED jobs
                      ELSE /\ Len(jobs) < MaxJobs
                           /\ isPredicting' = TRUE
                           /\ error' = "null"
                           /\ jobs' = Append(jobs, [img |-> 0, stage |-> "data"])
                           /\ lastOp' = "predict"
           /\ UNCHANGED <<variant, mounted, loadStatus, model, isLoading,
                          isModelLoading, image, prediction, cameraActive,
                          nextImg, predFrom>>
           /\ UNCHANGED cameraVars
           /\ LET accepted == ~PredictDisabled /\ CaptureAndPredictGuard
                  alloc == IF ~accepted THEN 0
                           ELSE IF outcome = "ok" THEN 2
                           ELSE IF outcome = "throw" THEN 1
                           ELSE 0
              IN /\ liveTensors + alloc <= MaxTensors
                 /\ liveTensors' = liveTensors + alloc
           /\ UNCHANGED <<lastData, prep>>

(***************************************************************************)
(* Teardown: the cleanup the effect returned                               *)
(***************************************************************************)
\* StreamA and StreamB return a cleanup that stops streamRef.current; the
\* effects of Upload, Snapshot and Test return nothing
HasCleanup == variant \in {"StreamA", "StreamB"}

\* the page is left
Teardown ==
    /\ mounted
    /\ mounted' = FALSE
    /\ liveStreams' = IF HasCleanup THEN liveStreams \ {streamRef}
                                   ELSE liveStreams
    /\ videoSrc' = 0
    /\ lastOp' = "teardown"
    /\ UNCHANGED <<variant, loadStatus, jobs, nextImg, predFrom, streamRef,
                   acquired, gumPending>>
    /\ UNCHANGED sessionVars
    /\ UNCHANGED <<liveTensors, lastData, prep>>

(***************************************************************************)
(* Specification                                                           *)
(***************************************************************************)
Next ==
    \/ LoadModelResolve
    \/ LoadModelReject
    \/ \E hasFile \in BOOLEAN : HandleUpload(hasFile)
    \/ HandlePredict
    \/ \E i \in 1..MaxJobs : ImgOnload(i)
    \/ \E i \in 1..MaxJobs : ImgOnerror(i)
    \/ \E i \in 1..MaxJobs : DataResolve(i)
    \/ \E i \in 1..MaxJobs : DataReject(i)
    \/ StartCamera
    \/ ResetCamera
    \/ GetUserMediaResolve
    \/ GetUserMediaReject
    \/ \E ctxOK \in BOOLEAN : CaptureImage(ctxOK)
    \/ StopCamera
    \/ ActivateCamera
    \/ CameraDenied
    \/ \E photoOK \in BOOLEAN : TakeAndPredict(photoOK)
    \/ \E outcome \in {"ctxNull", "tidyThrow", "throw", "ok"} :
          CaptureAndPredict(outcome)
    \/ Teardown

Spec == Init /\ [][Next]_vars

\* the image decode of a predict call reports: img.onload or img.onerror fires
DecodeReports(i) == ImgOnload(i) \/ ImgOnerror(i)

\* the model call of a predict call reports: output.data() resolves or rejects
ModelReports(i) == DataResolve(i) \/ DataReject(i)

\* the page under a browser and an engine that report on every decode and
\* every read they were asked for
SpecFair ==
    /\ Init /\ [][Next]_vars
    /\ \A i \in 1..MaxJobs : WF_vars(DecodeReports(i)) /\ WF_vars(ModelReports(i))

(***************************************************************************)
(* The preprocessing chain on its own: a page whose model is loaded runs   *)
(* one predict call on one bitmap                                          *)
(***************************************************************************)
\* everything but the preprocessing run
pageVars == <<variant, mounted, loadStatus, model, isLoading, isModelLoading,
              isPredicting, image, prediction, error, cameraActive, streamRef,
              videoSrc, liveStreams, acquired, gumPending, jobs, nextImg,
              predFrom, lastOp, liveTensors, lastData>>

InitPrep ==
    /\ variant \in Variants
    /\ mounted = TRUE
    /\ loadStatus = "ready"
    /\ model = "loaded"
    /\ isLoading = (variant \in {"Upload", "StreamA"})
    /\ isModelLoading = FALSE
    /\ isPredicting = (variant \in {"StreamB", "Snapshot", "Test"})
    /\ image = 0
    /\ prediction = "null"
    /\ error = "null"
    /\ cameraActive = FALSE
    /\ streamRef = 0
    /\ videoSrc = 0
    /\ liveStreams = {}
    /\ acquired = 0
    /\ gumPending = 0
    /\ jobs = <<>>
    /\ nextImg = 1
    /\ predFrom = 0
    /\ lastOp = "predict"
    /\ liveTensors = 0
    /\ lastData = [i \in 0..3 |-> 0]
    /\ \E w \in 0..MaxDim, h \in 0..MaxDim, lo \in Samples, hi \in Samples :
          /\ lo <= hi
          /\ prep = PrepInput(w, h, lo, hi)

\* canvas.width = 256; canvas.height = 256; ctx.drawImage(video, 0, 0, 256, 256);
\* ctx.getImageData(0, 0, 256, 256).  A frame without width or height draws
\* nothing and throws nothing: the canvas keeps the transparent black the
\* resize left in it
DrawImage ==
    /\ PrepAt("drawImage")
    /\ prep' = PrepStep([prep EXCEPT
                  !.shape = <<TargetSize, TargetSize, 4>>,
                  !.lo = IF prep.w = 0 \/ prep.h = 0 THEN 0 ELSE prep.lo,
                  !.hi = IF prep.w = 0 \/ prep.h = 0 THEN 0 ELSE prep.hi])
    /\ UNCHANGED pageVars

\* tf.browser.fromPixels(pixels): an int32 tensor [height, width, 3] of the
\* samples; it throws on pixels without width or height
FromPixels ==
    /\ PrepAt("fromPixels")
    /\ prep' = IF prep.shape[1] = 0 \/ prep.shape[2] = 0
                 THEN PrepThrow
                 ELSE PrepStep([prep EXCEPT
                        !.shape = <<prep.shape[1], prep.shape[2], 3>>,
                        !.dtype = "int32"])
    /\ UNCHANGED pageVars

\* .resizeBilinear([256, 256]) / .resizeNearestNeighbor([256, 256]): every
\* value of the result is a value of the input or a weighted mean of some
Resize ==
    /\ PrepAt("resizeBilinear") \/ PrepAt("resizeNearestNeighbor")
    /\ prep' = PrepStep([prep EXCEPT
                  !.shape = <<TargetSize, TargetSize, prep.shape[3]>>,
                  !.dtype = IF PrepAt("resizeBilinear") THEN "float32"
                                                        ELSE prep.dtype])
    /\ UNCHANGED pageVars

\* .toFloat()
ToFloat ==
    /\ PrepAt("toFloat")
    /\ prep' = PrepStep([prep EXCEPT !.dtype = "float32"])
    /\ UNCHANGED pageVars

\* .div(255.0)
Div ==
    /\ PrepAt("div")
    /\ prep' = PrepStep([prep EXCEPT !.den = prep.den * MaxSample])
    /\ UNCHANGED pageVars

\* .expandDims(): a leading axis of size 1
ExpandDims ==
    /\ PrepAt("expandDims")
    /\ prep' = PrepStep([prep EXCEPT !.shape = <<1>> \o prep.shape])
    /\ UNCHANGED pageVars

\* model.predict(tensor): the inference runs on what the chain returned
Predict ==
    /\ PrepAt("predict")
    /\ prep' = PrepStep(prep)
    /\ UNCHANGED pageVars

NextPrep ==
    \/ DrawImage
    \/ FromPixels
    \/ Resize
    \/ ToFloat
    \/ Div
    \/ ExpandDims
    \/ Predict

SpecPrep == InitPrep /\ [][NextPrep]_vars

(***************************************************************************)
(* Properties                                                              *)
(***************************************************************************)
\* the type of the state
TypeOK ==
    /\ variant \in Variants
    /\ mounted \in BOOLEAN
    /\ loadStatus \in {"pending", "ready", "failed"}
    /\ model \in {"null", "loaded"}
    /\ isLoading \in BOOLEAN /\ isModelLoading \in BOOLEAN
    /\ isPredicting \in BOOLEAN /\ cameraActive \in BOOLEAN
    /\ image \in 0..MaxImages
    /\ prediction \in {"null"} \cup {classLabels[i] : i \in 0..3}
    /\ error \in {"null", "ModelLoad", "Camera", "Capture", "Decode", "Predict"}
    /\ streamRef \in 0..MaxStreams /\ videoSrc \in 0..MaxStreams
    /\ liveStreams \subseteq 1..MaxStreams
    /\ acquired \in 0..MaxStreams
    /\ gumPending \in 0..MaxPending
    /\ Len(jobs) <= MaxJobs
    /\ nextImg \in 1..(MaxImages + 1)
    /\ liveTensors \in 0..MaxTensors
    /\ lastData \in Vectors
    /\ prep = PrepIdle
    /\ predFrom \in 0..MaxImages

\* In the getUserMedia pages the camera view is never shown: setCameraActive(true)
\* needs videoRef.current, and <video> is rendered only when cameraActive.
CameraViewNeverShown ==
    variant \in {"StreamA", "StreamB", "Test"} => ~cameraActive /\ image = 0

\* an operation of the page is in flight: the model load, a device request,
\* or a predict call (decode or inference)
InFlight == loadStatus = "pending" \/ gumPending > 0 \/ jobs # <<>>

\* C1: prediction is non-null only when the held image is non-null and
\* error is null, in every reachable state.
C1_PredictionImpliesImageNoError ==
    prediction # "null" => (image # 0 /\ error = "null")

\* a predict request: a gesture on a control that carries handlePredict,
\* takeAndPredict or captureAndPredict
PredictRequest ==
    \/ HandlePredict
    \/ \E photoOK \in BOOLEAN : TakeAndPredict(photoOK)
    \/ \E outcome \in {"ctxNull", "tidyThrow", "throw", "ok"} :
          CaptureAndPredict(outcome)

\* C2: a predict request issued while busy is rejected: it starts no decode
\* and no inference, is not queued, and leaves every field of the session
\* state unchanged.
C2_BusyPredictRejected ==
    [][(Busy /\ PredictRequest) =>
          (UNCHANGED sessionVars /\ UNCHANGED jobs)]_vars

\* a predict request was rejected while an earlier predict call is in flight
C2_Witness == lastOp = "predictRejected" /\ Busy /\ jobs # <<>>

\* C4: once the model load has failed the model is null, the loading flag
\* is cleared, the load error was set by the failure, and no predict
\* attempt is accepted: nothing is decoded and model.predict is not called.
C4_FailedLoadBlocksPredict ==
    loadStatus = "failed" =>
        /\ model = "null"
        /\ jobs = <<>>
        /\ lastOp \notin {"predict", "predictThrow", "imgOnload"}
        /\ mounted => /\ ~Busy
                      /\ lastOp = "loadReject" => error = "ModelLoad"

\* a predict attempt was made after the load failed
C4_Witness == loadStatus = "failed" /\ lastOp = "predictNoop" /\ image # 0

\* C3: a non-null prediction was computed from the image currently held:
\* the completion of an inference does not set prediction once the image was
\* replaced, a new capture was started or the session was reset.
C3_PredictionFromHeldImage ==
    prediction # "null" => predFrom = image

\* C5: busy is true only while a capture, model-load or inference operation
\* is in flight.
C5_BusyOnlyWhileInFlight ==
    (mounted /\ Busy) => InFlight

\* the steps at which a failure of the capture source, of the decode /
\* preprocess step or of the inference engine is reported to the page
FailureOps == {"gumReject", "takePhotoThrow", "imgOnerror", "predictThrow",
               "dataReject"}

\* C6: every failure of the capture source, the decode/preprocess step or
\* the inference engine sets error and clears busy (busy may remain only for
\* another operation that is still in flight).
C6_FailureSetsErrorClearsBusy ==
    (mounted /\ lastOp \in FailureOps) =>
        (error # "null" /\ (Busy => InFlight))

\* a control that starts a new capture is rendered and enabled, or the
\* camera view is already open with its capture button enabled
CaptureAttemptEnabled ==
    \/ UploadRendered
    \/ StartCameraRendered /\ ~StartCameraDisabled
    \/ ResetCameraRendered
    \/ ActivateCameraRendered
    \/ CaptureImageRendered
    \/ TakeAndPredictRendered /\ ~PredictDisabled
    \/ CaptureAndPredictRendered /\ ~PredictDisabled

\* the button that predicts is disabled by a flag that no pending operation
\* is left to clear
PermanentlyDisabled == mounted /\ PredictDisabled /\ ~InFlight

\* C7: Errored is never terminal: whenever an error is shown a new capture
\* attempt is enabled, and no state has capture and predict disabled for good.
C7_ErroredNeverTerminal ==
    /\ (mounted /\ error # "null") => CaptureAttemptEnabled
    /\ ~PermanentlyDisabled

\* C8: after a successful capture, an explicit close, or teardown, no
\* acquired media stream is still live.
C8_ReleasedAfterCaptureCloseTeardown ==
    lastOp \in {"captureImage", "stopCamera", "teardown"} => liveStreams = {}

\* C9: in the pages whose effect returns a cleanup, once the page is left and
\* every device request has completed, no acquired stream is live, whatever
\* the order of the cleanup and the completions.
C9_TeardownReleasesCamera ==
    (variant \in {"StreamA", "StreamB"} /\ ~mounted /\ gumPending = 0) =>
        liveStreams = {}

\* C10: at most one acquired media stream is live at any moment.
C10_AtMostOneLiveStream == Cardinality(liveStreams) <= 1

\* C11: only one capture or predict operation is in flight at a time: no
\* state has two pending getUserMedia requests, or a pending device request
\* together with a pending predict call.
C11_OneOperationInFlight ==
    /\ gumPending <= 1
    /\ ~(gumPending > 0 /\ jobs # <<>>)

\* the flag that shows the model load: isLoading or isModelLoading
LoadFlag == IF UsesIsLoading THEN isLoading ELSE isModelLoading

\* C12: the model is loaded once per session: while the load is pending the
\* loading flag is set and the model is null; the load ends Ready with the
\* model set, or Failed with the model null; it is never issued again, and
\* a loaded model stays loaded.
C12_ModelLoadedOnce ==
    /\ [](mounted =>
            /\ loadStatus = "pending" => (LoadFlag /\ model = "null")
            /\ loadStatus = "ready" => model = "loaded"
            /\ loadStatus = "failed" => model = "null")
    /\ [][/\ loadStatus # "pending" => loadStatus' = loadStatus
          /\ model = "loaded" => model' = "loaded"]_vars

\* the model is Ready and has served a prediction
C12_Witness ==
    mounted /\ loadStatus = "ready" /\ model = "loaded" /\ prediction # "null"

\* C13: when getUserMedia rejects, the session shows an error and the
\* capture stays idle: the camera view is not active and no image is held.
C13_DeniedCameraErrorsAndStaysIdle ==
    (mounted /\ lastOp = "gumReject") =>
        (error # "null" /\ ~cameraActive /\ image = 0)

\* a device request was refused while the page is mounted
C13_Witness == mounted /\ lastOp = "gumReject" /\ error = "Camera"

\* the last step captured an image: captureImage, or the takePhoto of
\* takeAndPredict
JustCaptured ==
    lastOp = "captureImage" \/ (variant = "Snapshot" /\ lastOp = "predict")

\* a gesture on a control that carries resetCamera or activateCamera
ResetRequest == ActivateCamera \/ ResetCamera

Session == [image |-> image, prediction |-> prediction, error |-> error,
            cameraActive |-> cameraActive, gumPending |-> gumPending]

\* startCamera up to its await: three setters, then getUserMedia is called
startCamera(s) ==
    [s EXCEPT !.error = "null", !.prediction = "null", !.image = 0,
              !.gumPending = @ + 1]

\* resetCamera: three setters, then startCamera()
resetCamera(s) ==
    startCamera([s EXCEPT !.image = 0, !.prediction = "null",
                          !.error = "null"])

\* activateCamera: four setters
activateCamera(s) ==
    [s EXCEPT !.cameraActive = TRUE, !.image = 0, !.prediction = "null",
              !.error = "null"]

\* the reset of the page: resetCamera in StreamA, activateCamera in Snapshot
Reset(s) == IF variant = "Snapshot" THEN activateCamera(s) ELSE resetCamera(s)

\* the functions agree with the actions of the model
ResetFunctionsAgree ==
    [][/\ ActivateCamera => Session' = activateCamera(Session)
       /\ (StartCameraRendered /\ ~StartCameraDisabled /\ StartCamera)
              => Session' = startCamera(Session)]_vars

C19_ResolvedRequestOpensCamera ==
    (mounted /\ variant \in {"StreamA", "StreamB", "Test"}
       /\ lastOp = "gumResolve") => (cameraActive /\ videoSrc # 0)

\* C20: once the model load has failed, the load-failure error stays set
\* after every later operation of the session.
C20_LoadFailureStaysShown ==
    (mounted /\ loadStatus = "failed") => error = "ModelLoad"

\* C16: for every confidence vector of length 4 the predicted label is the
\* classLabels entry at the first position that holds the maximum, so a tie
\* between maxima goes to the lowest tied index
C16_ArgmaxFirstMaximum ==
    (mounted /\ lastOp = "dataResolve") =>
        \E i \in 0..3 :
            /\ prediction = classLabels[i]
            /\ \A j \in 0..3 : lastData[j] <= lastData[i]
            /\ \A j \in 0..(i - 1) : lastData[j] < lastData[i]

\* a prediction resolved from an all-equal vector, and one from a vector
\* whose maximum is held by the last two positions
C16_Witness ==
    /\ mounted /\ lastOp = "dataResolve"
    /\ \/ lastData = [i \in 0..3 |-> MaxConf] /\ prediction = "Dark"
       \/ lastData = [i \in 0..3 |-> IF i >= 2 THEN MaxConf ELSE 0]
             /\ prediction = "Light"

\* C17: once every predict call has completed, by success, by model.predict
\* throwing or by output.data() failing, no tensor the calls allocated is
\* still live
C17_TensorsReleasedOnEveryExit == jobs = <<>> => liveTensors = 0

C21_PredictionOnlyFromReadyInference ==
    /\ [](jobs # <<>> => /\ loadStatus = "ready" /\ model = "loaded"
                         /\ \A i \in DOMAIN jobs : jobs[i].img # 0)
    /\ [][(prediction' # prediction /\ prediction' # "null") =>
             \E i \in DOMAIN jobs : DataResolve(i)]_vars

\* the inference of a snapshot completed with a label for the image held
C21_Witness ==
    /\ mounted /\ variant = "Snapshot" /\ lastOp = "dataResolve"
    /\ prediction # "null" /\ predFrom # 0 /\ predFrom = image
    /\ loadStatus = "ready"

\* C22: in the snapshot page a refusal of the camera after activateCamera
\* is surfaced: error becomes non-null and cameraActive returns to false
C22_SnapshotDenialSurfaced ==
    (mounted /\ lastOp = "cameraDenied") => (error # "null" /\ ~cameraActive)

\* C23: in the live-stream pages, whenever cameraActive is false and no
\* device request is pending, no stream that startCamera acquired is live
C23_NoLiveTrackWhenCameraOff ==
    (variant \in {"StreamA", "StreamB", "Test"} /\ mounted /\ ~cameraActive
        /\ gumPending = 0) => liveStreams = {}

\* the steps that end a predict call
PredictEndOps == {"dataResolve", "dataReject", "predictThrow", "imgOnerror",
                  "takePhotoThrow"}

\* C24: every accepted predict request terminates when the decode and the
\* model call report: busy becomes false, and when a predict call has ended
\* with busy false exactly one of prediction and error is non-null
C24_AcceptedPredictTerminates ==
    /\ (mounted /\ lastOp = "predict") ~> (~mounted \/ ~Busy)
    /\ [](( mounted /\ lastOp \in PredictEndOps /\ ~Busy) =>
             ((prediction # "null") # (error # "null")))

\* C25: a click on Predict Roast while the model is not loaded or no image
\* is held changes no field of the session, starts no decode and no
\* inference and touches no capture; an accepted click leaves the held
\* image and the capture status as they were
C25_PredictNoopAndFrame ==
    [][HandlePredict =>
         /\ (model = "null" \/ image = 0) =>
               /\ UNCHANGED sessionVars
               /\ UNCHANGED <<jobs, liveTensors>>
               /\ UNCHANGED cameraVars
         /\ image' = image
         /\ cameraActive' = cameraActive /\ gumPending' = gumPending]_vars

\* Predict Roast was clicked with an image held and no model, after a new
\* upload had cleared the message of the failed load
C25_Witness ==
    /\ mounted /\ variant = "Upload" /\ lastOp = "predictNoop"
    /\ model = "null" /\ image # 0 /\ error = "null" /\ jobs = <<>>

\* C26: in the upload page handleUpload with a file selected replaces the
\* held image with the new file and sets prediction and error to null,
\* leaving model and busy unchanged; with nothing selected it leaves the
\* whole session unchanged
C26_HandleUploadFrame ==
    [][(\E hasFile \in BOOLEAN : HandleUpload(hasFile)) =>
         /\ lastOp' = "upload" =>
               /\ image' # 0 /\ image' # image
               /\ prediction' = "null" /\ error' = "null"
               /\ model' = model
               /\ UNCHANGED <<isLoading, isModelLoading, isPredicting>>
         /\ lastOp' = "uploadEmpty" =>
               UNCHANGED sessionVars /\ UNCHANGED jobs]_vars

\* a second file replaced the first while a prediction was shown and a
\* predict call on the first was still in flight
C26_Witness ==
    /\ mounted /\ variant = "Upload" /\ lastOp = "upload"
    /\ image = 2 /\ prediction = "null" /\ error = "null"
    /\ isLoading /\ jobs # <<>>


====
